---------------------------- MODULE Spec2Model ----------------------------
(***************************************************************************)
(* Model of the YouTube downloader backend (src/server.js): the /download  *)
(* request handler with its two track fetches, the remux subprocess and    *)
(* the temporary files, and the /info menu builder.                        *)
(*                                                                         *)
(* One entry of Req is one HTTP request to /download.  Each await of the   *)
(* handler and each stream / subprocess event is one action; the code      *)
(* between two awaits runs atomically (single-threaded event loop).        *)
(***************************************************************************)
EXTENDS Integers, Naturals, Sequences, FiniteSets, TLC

(* ------------------------------ bounds -------------------------------- *)
\* number of /download requests of one behaviour
NReq == 2
\* number of /info requests of one behaviour
NInfo == 2
\* longest variant list the extractor answers with
MaxFormats == 3
\* number of times the clock is read to have moved on
MaxTicks == 3
\* largest number of tries fetchWithRetry is called with
MaxTries == 4

(* ------------------------- program constants -------------------------- *)
TTL == 900000
WINDOW_MS == 60000
MAX_REQS_WINDOW == 10

Req == 1..NReq
IReq == 1..NInfo
NoFile == 0
NoItag == 0

(* ----------------------------- variants ------------------------------- *)
\* A ytdl format: height 0 stands for "no numeric height" (undefined), the
\* quality label is a sequence of characters ("" = <<>>).
\* contentLength 0 stands for "no length declared".
Fmt(i, c, h, q, v, a, abr, len) ==
    [itag |-> i, container |-> c, height |-> h, qualityLabel |-> q,
     hasVideo |-> v, hasAudio |-> a, audioBitrate |-> abr,
     contentLength |-> len]

\* undefined / null where the code holds a format
NoFormat == Fmt(NoItag, "", 0, <<>>, FALSE, FALSE, 0, 0)

L1080 == <<"1", "0", "8", "0", "p">>
L360 == <<"3", "6", "0", "p">>

F18 == Fmt(18, "mp4", 360, L360, TRUE, TRUE, 96, 0)
F137 == Fmt(137, "mp4", 1080, L1080, TRUE, FALSE, 0, 5000000)
F140 == Fmt(140, "mp4", 0, <<>>, FALSE, TRUE, 128, 1000)

\* the variant lists of the videos the downloads are run against
Catalogs == { <<F137, F18, F140>>, <<F137>> }

F248 == Fmt(248, "webm", 1080, L1080, TRUE, FALSE, 0, 0)
F251 == Fmt(251, "webm", 0, <<>>, FALSE, TRUE, 160, 0)
\* an HLS audio rendition (audio/ts)
F128 == Fmt(128, "ts", 0, <<>>, FALSE, TRUE, 96, 0)

\* the variant lists the transfer planner is run against
PlanLists ==
    { <<F137, F18, F140>>, <<F137>>, <<F137, F18>>,
      <<F248, F251, F140>>, <<F137, F128, F140>>, <<F137, F128>> }

\* the variant lists of the videos that several /info requests ask for
Replays == { <<F137, F18, F140>>, <<F248, F137, F140>>, <<>> }

L720 == <<"7", "2", "0", "p", "6", "0">>
L480 == <<"4", "8", "0", "p">>
LHD == <<"h", "d">>

\* the kinds of variant the menu builder is run against (itag 0: the itag
\* is given by the position in the list, see Numbered)
Shapes ==
    { Fmt(0, "mp4", 1080, L1080, TRUE, FALSE, 0, 5000000),
      Fmt(0, "webm", 2160, <<>>, TRUE, FALSE, 0, 0),
      Fmt(0, "mp4", 720, L720, TRUE, TRUE, 128, 1000),
      Fmt(0, "webm", 0, L480, TRUE, FALSE, 0, 0),
      Fmt(0, "mp4", 360, L360, TRUE, TRUE, 96, 1000),
      Fmt(0, "3gp", 144, LHD, TRUE, TRUE, 24, 0),
      Fmt(0, "ts", 720, L720, TRUE, TRUE, 256, 0),
      Fmt(0, "mp4", 804, L1080, TRUE, FALSE, 0, 0),
      Fmt(0, "mp4", 0, LHD, TRUE, FALSE, 0, 0),
      Fmt(0, "mp4", 0, <<>>, FALSE, TRUE, 128, 1000),
      Fmt(0, "webm", 0, <<>>, FALSE, TRUE, 160, 0) }

\* the itag identifies a variant within its list
Numbered(ss) == [i \in 1..Len(ss) |-> [ss[i] EXCEPT !.itag = i]]

FormatLists ==
    { Numbered(ss) : ss \in UNION {[1..n -> Shapes] : n \in 0..MaxFormats} }

\* itags a client may ask for when the video has the variants fs: one of
\* the list, one that no list has, or none (NoItag: the parameter is missing)
ReqItags(fs) == {NoItag, 999} \cup {fs[i].itag : i \in 1..Len(fs)}

(* ------------------------------- URLs --------------------------------- *)
\* A raw url is a record: the video id it carries ("" when ytdl finds none)
\* and whether it has further query parameters.
Url(id, extra) == [id |-> id, extra |-> extra]
\* the parameter is missing (undefined)
NoUrl == Url("", FALSE)
\* a text ytdl finds no video id in
BadUrl == Url("", TRUE)
DlUrls == {Url("A", TRUE), BadUrl, NoUrl}
InfoUrls == {Url("A", TRUE), Url("A", FALSE), BadUrl, NoUrl}
VideoIds == {"A"}

\* a url handed on as the client wrote it
cleanWatchURLRaw(u) == u

\* server.js:34 cleanWatchURL: canonical watch URL of the id, or the input
\* untouched when ytdl.getURLVideoID throws
cleanWatchURL(u) == IF u.id # "" THEN Url(u.id, FALSE) ELSE u

\* a validation that lets every url through
validateURLAny(u) == TRUE

\* ytdl.validateURL: an 11-char id can be extracted
validateURL(u) == u.id # ""

(* ------------------------------ helpers ------------------------------- *)
\* least element of a non-empty set of naturals
Min(S) == CHOOSE x \in S : \A y \in S : x <= y

\* Array.prototype.find over the indices S that satisfy the predicate:
\* the first such element in list order, NoFormat (undefined) if none
Find(fs, S) == IF S = {} THEN NoFormat ELSE fs[Min(S)]

IsAudioOnly(f) == f.hasAudio /\ ~f.hasVideo

\* ytdl.chooseFormat(formats, {quality: "highestaudio", filter: "audioonly"}):
\* keeps the formats with audio and no video, returns the first one of the
\* highest audio bitrate; NoFormat stands for the error it throws when the
\* filter leaves nothing.
chooseFormat(fs) ==
    LET c == SelectSeq(fs, IsAudioOnly)
    IN Find(c, {i \in 1..Len(c) :
                  \A j \in 1..Len(c) : c[j].audioBitrate <= c[i].audioBitrate})

(* --------------------------- menu builder ----------------------------- *)
\* a picks object whose audio key was written first
BucketsAudioFirst == <<"audio", "1080p", "720p", "480p", "360p">>

\* server.js:126-132  the keys of picks, in the order Object.entries lists
\* them
Buckets == <<"1080p", "720p", "480p", "360p", "audio">>

Digits == <<"0", "1", "2", "3", "4", "5", "6", "7", "8", "9">>
IsDigit(c) == \E d \in 1..10 : Digits[d] = c
DigitVal(c) == (CHOOSE d \in 1..10 : Digits[d] = c) - 1

\* server.js:137  (f.qualityLabel || "").match(/\d+/)?.[0] : the first
\* unbroken run of digits of the label, <<>> when it has none
RECURSIVE DigitRun(_, _)
DigitRun(q, i) ==
    IF i > Len(q) \/ ~IsDigit(q[i]) THEN <<>>
    ELSE <<q[i]>> \o DigitRun(q, i + 1)

FirstDigits(q) ==
    LET S == {i \in 1..Len(q) : IsDigit(q[i])}
    IN IF S = {} THEN <<>> ELSE DigitRun(q, Min(S))

\* server.js:137  parseInt(digits || 0)
RECURSIVE ParseInt(_)
ParseInt(ds) ==
    IF ds = <<>> THEN 0
    ELSE 10 * ParseInt(SubSeq(ds, 1, Len(ds) - 1)) + DigitVal(ds[Len(ds)])

\* a height that reads the label first and the number only without one
HeightOfLabelFirst(f) ==
    IF FirstDigits(f.qualityLabel) # <<>>
    THEN ParseInt(FirstDigits(f.qualityLabel))
    ELSE f.height

\* server.js:136-137  h = f.height || parseInt(..)
HeightOf(f) ==
    IF f.height # 0 THEN f.height ELSE ParseInt(FirstDigits(f.qualityLabel))

NoPicks == [k \in {Buckets[i] : i \in 1..Len(Buckets)} |-> NoFormat]

\* a loop body without the !picks[..] tests: the last qualifying variant
\* takes the bucket
PickStepLastWins(picks, f) ==
    LET h == HeightOf(f)
        p == IF ~f.hasVideo THEN picks
             ELSE IF h >= 1080 THEN [picks EXCEPT !["1080p"] = f]
             ELSE IF h >= 720 /\ h < 1080 THEN [picks EXCEPT !["720p"] = f]
             ELSE IF h >= 480 /\ h < 720 THEN [picks EXCEPT !["480p"] = f]
             ELSE IF h >= 360 /\ h < 480 THEN [picks EXCEPT !["360p"] = f]
             ELSE picks
    IN IF f.hasAudio /\ ~f.hasVideo THEN [p EXCEPT !["audio"] = f] ELSE p

\* a loop body whose 720p test reads h > 720
PickStepAbove720(picks, f) ==
    LET h == HeightOf(f)
        p == IF ~f.hasVideo THEN picks
             ELSE IF h >= 1080 /\ picks["1080p"] = NoFormat
                  THEN [picks EXCEPT !["1080p"] = f]
             ELSE IF h > 720 /\ h < 1080 /\ picks["720p"] = NoFormat
                  THEN [picks EXCEPT !["720p"] = f]
             ELSE IF h >= 480 /\ h < 720 /\ picks["480p"] = NoFormat
                  THEN [picks EXCEPT !["480p"] = f]
             ELSE IF h >= 360 /\ h < 480 /\ picks["360p"] = NoFormat
                  THEN [picks EXCEPT !["360p"] = f]
             ELSE picks
    IN IF f.hasAudio /\ ~f.hasVideo /\ p["audio"] = NoFormat
       THEN [p EXCEPT !["audio"] = f]
       ELSE p

\* a loop body that takes an audio variant only from an m4a container
PickStepM4aAudio(picks, f) ==
    LET h == HeightOf(f)
        p == IF ~f.hasVideo THEN picks
             ELSE IF h >= 1080 /\ picks["1080p"] = NoFormat
                  THEN [picks EXCEPT !["1080p"] = f]
             ELSE IF h >= 720 /\ h < 1080 /\ picks["720p"] = NoFormat
                  THEN [picks EXCEPT !["720p"] = f]
             ELSE IF h >= 480 /\ h < 720 /\ picks["480p"] = NoFormat
                  THEN [picks EXCEPT !["480p"] = f]
             ELSE IF h >= 360 /\ h < 480 /\ picks["360p"] = NoFormat
                  THEN [picks EXCEPT !["360p"] = f]
             ELSE picks
    IN IF f.hasAudio /\ ~f.hasVideo /\ f.container = "m4a"
          /\ p["audio"] = NoFormat
       THEN [p EXCEPT !["audio"] = f]
       ELSE p

\* a loop body whose audio test forgets !f.hasVideo
PickStepAnyAudio(picks, f) ==
    LET h == HeightOf(f)
        p == IF ~f.hasVideo THEN picks
             ELSE IF h >= 1080 /\ picks["1080p"] = NoFormat
                  THEN [picks EXCEPT !["1080p"] = f]
             ELSE IF h >= 720 /\ h < 1080 /\ picks["720p"] = NoFormat
                  THEN [picks EXCEPT !["720p"] = f]
             ELSE IF h >= 480 /\ h < 720 /\ picks["480p"] = NoFormat
                  THEN [picks EXCEPT !["480p"] = f]
             ELSE IF h >= 360 /\ h < 480 /\ picks["360p"] = NoFormat
                  THEN [picks EXCEPT !["360p"] = f]
             ELSE picks
    IN IF f.hasAudio /\ p["audio"] = NoFormat
       THEN [p EXCEPT !["audio"] = f]
       ELSE p

\* server.js:135-143  the body of the loop over info.formats
PickStep(picks, f) ==
    LET h == HeightOf(f)
        p == IF ~f.hasVideo THEN picks
             ELSE IF h >= 1080 /\ picks["1080p"] = NoFormat
                  THEN [picks EXCEPT !["1080p"] = f]
             ELSE IF h >= 720 /\ h < 1080 /\ picks["720p"] = NoFormat
                  THEN [picks EXCEPT !["720p"] = f]
             ELSE IF h >= 480 /\ h < 720 /\ picks["480p"] = NoFormat
                  THEN [picks EXCEPT !["480p"] = f]
             ELSE IF h >= 360 /\ h < 480 /\ picks["360p"] = NoFormat
                  THEN [picks EXCEPT !["360p"] = f]
             ELSE picks
    IN IF f.hasAudio /\ ~f.hasVideo /\ p["audio"] = NoFormat
       THEN [p EXCEPT !["audio"] = f]
       ELSE p

\* server.js:134-144  the loop: picks after the first n formats
RECURSIVE PicksAfter(_, _)
PicksAfter(fs, n) ==
    IF n = 0 THEN NoPicks ELSE PickStep(PicksAfter(fs, n - 1), fs[n])

Picks(fs) == PicksAfter(fs, Len(fs))

\* String.prototype.toUpperCase on the containers ytdl knows
ToUpper(c) ==
    CASE c = "mp4" -> "MP4" [] c = "webm" -> "WEBM" [] c = "m4a" -> "M4A"
      [] c = "3gp" -> "3GP" [] c = "flv" -> "FLV" [] c = "ts" -> "TS"
      [] OTHER -> c

\* pretty-bytes on the lengths the model uses
Pretty(n) ==
    CASE n = 1000 -> "1 kB" [] n = 5000000 -> "5 MB" [] OTHER -> "? B"

\* server.js:148-153  one entry of the menu ("--" stands for the dash)
Entry(k, f) ==
    [itag |-> f.itag,
     label |-> IF k = "audio" THEN "Audio only" ELSE k,
     ext |-> ToUpper(f.container),
     sizeMB |-> IF f.contentLength # 0 THEN Pretty(f.contentLength) ELSE "--"]

\* server.js:146-153  Object.entries(picks).filter(..).map(..)
RECURSIVE MenuFrom(_, _)
MenuFrom(picks, i) ==
    IF i > Len(Buckets) THEN <<>>
    ELSE (IF picks[Buckets[i]] # NoFormat
          THEN <<Entry(Buckets[i], picks[Buckets[i]])>>
          ELSE <<>>) \o MenuFrom(picks, i + 1)

\* a builder that lists every qualifying variant instead of the first one
\* of each bucket
RECURSIVE EveryMatch(_, _)
EveryMatch(fs, n) ==
    IF n = 0 THEN <<>>
    ELSE EveryMatch(fs, n - 1) \o MenuFrom(PickStep(NoPicks, fs[n]), 1)

BuildMenuEveryMatch(fs) == EveryMatch(fs, Len(fs))

BuildMenu(fs) == MenuFrom(Picks(fs), 1)

\* a builder that turns info.formats round in place (Array.prototype.reverse)
FormatsReversed(fs) == [i \in 1..Len(fs) |-> fs[Len(fs) + 1 - i]]

\* server.js:134-153  info.formats after a build: the loop and the map
\* read the list, they write picks and formats only
FormatsAfterBuild(fs) == fs

(* --------------------------- program state ---------------------------- *)
VARIABLES
    pc,          \* per request: where its handler (or its pipe) stands
    req,         \* per request: the query parameters [url, itag]
    attempt,     \* per request: index of the running extractor strategy (a
                 \* local of getVideoInfoWithFallback: 0 outside of it)
    videoF,      \* per request: the format found for the requested itag
    audioF,      \* per request: the audio counterpart of a merge
    vTmp, aTmp,  \* per request: the temp file names (NoFile before creation)
    fetch,       \* per request and track: state of save()'s stream and promise
    ff,          \* per request: state of the ffmpeg subprocess
    res,         \* per request: the HTTP response
    disk,        \* names of the temp files that exist
    crashed,     \* the node process died of an unhandled 'error' event
    rateLimiter, \* the rate limiter's table: client -> hit times
    now,         \* Date.now()
    media,       \* per video id: the variant list the extractor finds
    ipc,         \* per /info request: where its handler stands
    ireq,        \* per /info request: the query parameters [url, ip]
    iattempt,    \* per /info request: index of the running strategy
    ierr,        \* per /info request: err of getVideoInfoWithFallback
    ires,        \* per /info request: the HTTP response
    cache,       \* the /info cache: canonical url -> [data, ts]
    urlInput,    \* popup: the text of the url field ($url.value, trimmed)
    busy,        \* popup: the busy flag
    videoInfo,   \* popup: the payload of the last /info answer read
    options,     \* popup: the option values of $quality (itags)
    selected,    \* popup: $quality.selectedIndex + 1 (0: no option)
    arrowHidden, \* popup: $arrow.hidden
    downloadHidden, \* popup: $download.hidden
    fpc,         \* popup: where fetchWithRetry (and its caller) stands
    yt,          \* popup: the url fetchFormats read when it started
    tries,       \* fetchWithRetry: its parameter
    tryI,        \* fetchWithRetry: the loop index i
    fetched,     \* fetchWithRetry: the fetch attempts it has started
    waits,       \* fetchWithRetry: the delays it has waited, in order
    lastErr,     \* fetchWithRetry: lastErr
    response,    \* fetchWithRetry: the response it returned
    pending,     \* popup: chrome.downloads calls whose callback is due
    sent         \* popup: the last request handed to chrome.downloads

dlVars == <<pc, req, attempt, videoF, audioF, vTmp, aTmp, fetch, ff, res, disk,
            crashed>>
infoVars == <<ipc, ireq, iattempt, ierr, ires, cache>>
popupVars == <<urlInput, busy, videoInfo, options, selected, arrowHidden,
               downloadHidden, fpc, yt, tries, tryI, fetched, waits, lastErr,
               response, pending, sent>>
vars == <<dlVars, infoVars, rateLimiter, now, media, popupVars>>

Tracks == {"v", "a"}
Clients == {"c1"}

NoReq == [url |-> NoUrl, itag |-> NoItag, ip |-> "c1"]
\* status 0: never set (a response ended so goes out as 200); cd, ct: the
\* Content-Disposition / Content-Type headers; bytes: media bytes were written
FreshRes == [status |-> 0, cd |-> FALSE, ct |-> FALSE, bytes |-> FALSE, st |-> "open"]

\* the states of the download state machine, read off the handler's position
State(r) ==
    CASE pc[r] = "idle" -> "None"
      [] pc[r] = "received" -> "Received"
      [] pc[r] = "resolving" -> "Planning"
      [] pc[r] = "direct" -> "DirectStreaming"
      [] pc[r] \in {"tmpV", "tmpA", "fetching"} -> "FetchingTracks"
      [] pc[r] = "muxing" -> "Muxing"
      [] pc[r] = "done" -> "Done"
      [] pc[r] = "error" -> "Error"

Terminal(r) == pc[r] \in {"done", "error"}

\* the temp files request r created
FilesOf(r) == {vTmp[r], aTmp[r]} \ {NoFile}

(* --------------------------- rate limiter ----------------------------- *)
\* server.js:53  the hits of ip that are younger than the window
Recent(ip) == SelectSeq(rateLimiter[ip], LAMBDA t : now - t < WINDOW_MS)

\* a limiter that refuses only above the limit
tooManyAbove(ip) == Len(Recent(ip)) > MAX_REQS_WINDOW

\* server.js:51  tooMany's answer ...
tooMany(ip) == Len(Recent(ip)) >= MAX_REQS_WINDOW

\* ... and the table it leaves: a refused call stores nothing
AfterTooMany(ip) ==
    IF tooMany(ip) THEN rateLimiter
    ELSE [rateLimiter EXCEPT ![ip] = Append(Recent(ip), now)]

(* ----------------------------- responses ------------------------------ *)
\* res.status(code).send(..) / .json(..): the status line and the body go
\* out at once and the response is ended; nothing reaches a client that is
\* gone
Answer(rs, code) ==
    IF rs.st = "open" THEN [rs EXCEPT !.status = code, !.st = "ended"]
    ELSE [rs EXCEPT !.status = code]

\* res.end(): ends the response with whatever was sent so far
End(rs) == IF rs.st = "open" THEN [rs EXCEPT !.st = "ended"] ELSE rs

\* a chunk piped into the response
Write(rs) == IF rs.st = "open" THEN [rs EXCEPT !.bytes = TRUE] ELSE rs

(* --------------------------- /download -------------------------------- *)
\* index of the last strategy of a fallback with four strategies
LastStrategyOfFour == 4 - 1

\* index of the last strategy of getVideoInfoWithFallback (three strategies)
LastStrategy == 2

\* a request reaches the server; requests are numbered in arrival order
DlArrive(r) ==
    /\ ~crashed
    /\ pc[r] = "idle"
    /\ \A q \in Req : q < r => pc[q] # "idle"
    /\ \E u \in DlUrls, c \in Clients :
          \E i \in ReqItags(IF cleanWatchURL(u).id \in VideoIds
                            THEN media[cleanWatchURL(u).id] ELSE <<F18>>) :
             req' = [req EXCEPT ![r] = [url |-> u, itag |-> i, ip |-> c]]
    /\ pc' = [pc EXCEPT ![r] = "received"]
    /\ UNCHANGED <<attempt, videoF, audioF, vTmp, aTmp, fetch, ff, res, disk,
                   crashed, rateLimiter, now,
                   media, infoVars, popupVars>>

\* server.js:175-188  the handler up to its first await
DlHandle(r) ==
    /\ ~crashed
    /\ pc[r] = "received"
    /\ rateLimiter' = AfterTooMany(req[r].ip)
    /\ IF tooMany(req[r].ip)
       THEN /\ res' = [res EXCEPT ![r] = Answer(@, 429)]
            /\ pc' = [pc EXCEPT ![r] = "error"]
       ELSE IF ~validateURL(cleanWatchURL(req[r].url)) \/ req[r].itag = NoItag
       THEN /\ res' = [res EXCEPT ![r] = Answer(@, 400)]
            /\ pc' = [pc EXCEPT ![r] = "error"]
       ELSE /\ res' = res
            /\ pc' = [pc EXCEPT ![r] = "resolving"]
    /\ UNCHANGED <<req, attempt, videoF, audioF, vTmp, aTmp, fetch, ff, disk,
                   crashed, now,
                   media, infoVars, popupVars>>

\* server.js:95-104  one strategy of getVideoInfoWithFallback throws: the
\* next one is tried, and the error of the last one reaches the catch of
\* /download (server.js:238-241)
DlStrategyFails(r) ==
    /\ ~crashed
    /\ pc[r] = "resolving"
    /\ IF attempt[r] < LastStrategy
       THEN /\ attempt' = [attempt EXCEPT ![r] = @ + 1]
            /\ UNCHANGED <<pc, res>>
       ELSE /\ res' = [res EXCEPT ![r] = Answer(@, 500)]
            /\ pc' = [pc EXCEPT ![r] = "error"]
            /\ attempt' = [attempt EXCEPT ![r] = 0]
    /\ UNCHANGED <<req, videoF, audioF, vTmp, aTmp, fetch, ff, disk, crashed,
                   rateLimiter, now,
                   media, infoVars, popupVars>>

\* a lookup that falls back to the first variant of the list
FindItagOrFirst(fs, itag) ==
    Find(fs, IF \E i \in 1..Len(fs) : fs[i].itag = itag
             THEN {i \in 1..Len(fs) : fs[i].itag = itag}
             ELSE 1..Len(fs))

\* server.js:189  info.formats.find(f => f.itag == itag)
FindItag(fs, itag) == Find(fs, {i \in 1..Len(fs) : fs[i].itag = itag})

\* a direct test that asks for the wrong container
IsDirectWebm(f) == f.hasAudio /\ f.container = "webm"

\* server.js:198  the test of the direct branch
IsDirect(f) == f.hasAudio /\ f.container = "mp4"

\* server.js:204-209  the audio counterpart of a merge
PickAudio(fs) ==
    LET first == Find(fs, {i \in 1..Len(fs) : IsAudioOnly(fs[i])})
    IN IF first # NoFormat THEN first ELSE chooseFormat(fs)

\* server.js:188-211  a strategy answers with info: itag lookup, headers,
\* direct pipe or the choice of the audio counterpart, up to the next await
DlResolved(r) ==
    /\ ~crashed
    /\ pc[r] = "resolving"
    /\ LET fs == media[cleanWatchURL(req[r].url).id]
           vf == FindItag(fs, req[r].itag)
           af == PickAudio(fs)
       IN   IF vf = NoFormat
            THEN /\ res' = [res EXCEPT ![r] = Answer(@, 404)]
                 /\ pc' = [pc EXCEPT ![r] = "error"]
                 /\ UNCHANGED <<videoF, audioF>>
            ELSE IF IsDirect(vf)
            THEN /\ res' = [res EXCEPT ![r].cd = TRUE, ![r].ct = TRUE]
                 /\ pc' = [pc EXCEPT ![r] = "direct"]
                 /\ videoF' = [videoF EXCEPT ![r] = vf]
                 /\ UNCHANGED audioF
            ELSE IF af = NoFormat
            THEN /\ res' = [res EXCEPT ![r] = Answer([@ EXCEPT !.cd = TRUE], 500)]
                 /\ pc' = [pc EXCEPT ![r] = "error"]
                 /\ videoF' = [videoF EXCEPT ![r] = vf]
                 /\ UNCHANGED audioF
            ELSE /\ res' = [res EXCEPT ![r].cd = TRUE]
                 /\ pc' = [pc EXCEPT ![r] = "tmpV"]
                 /\ videoF' = [videoF EXCEPT ![r] = vf]
                 /\ audioF' = [audioF EXCEPT ![r] = af]
    /\ attempt' = [attempt EXCEPT ![r] = 0]
    /\ UNCHANGED <<req, vTmp, aTmp, fetch, ff, disk, crashed, rateLimiter, now,
                   media, infoVars, popupVars>>

\* a file() that names its files after the track alone
TmpNameByTrack(r, k) == k

\* tmp-promise file(): creates a file under a random name that no other
\* file has or had.  Which name is of no consequence, so the k-th call of
\* request r gets the name 2(r-1)+k.
TmpName(r, k) == 2 * (r - 1) + k

\* server.js:211  vTmp = await file(..)
DlTmpV(r) ==
    /\ ~crashed
    /\ pc[r] = "tmpV"
    /\ vTmp' = [vTmp EXCEPT ![r] = TmpName(r, 1)]
    /\ disk' = disk \cup {TmpName(r, 1)}
    /\ pc' = [pc EXCEPT ![r] = "tmpA"]
    /\ UNCHANGED <<req, attempt, videoF, audioF, aTmp, fetch, ff, res, crashed,
                   rateLimiter, now,
                   media, infoVars, popupVars>>

\* server.js:212-219  aTmp = await file(..), then both save() calls start
DlTmpA(r) ==
    /\ ~crashed
    /\ pc[r] = "tmpA"
    /\ aTmp' = [aTmp EXCEPT ![r] = TmpName(r, 2)]
    /\ disk' = disk \cup {TmpName(r, 2)}
    /\ fetch' = [fetch EXCEPT ![r] = [t \in Tracks |-> "running"]]
    /\ pc' = [pc EXCEPT ![r] = "fetching"]
    /\ UNCHANGED <<req, attempt, videoF, audioF, vTmp, ff, res, crashed,
                   rateLimiter, now,
                   media, infoVars, popupVars>>

\* server.js:211-214, 238-241  file(..) rejects (no space, no descriptor):
\* the catch answers 500
DlTmpFails(r) ==
    /\ ~crashed
    /\ pc[r] \in {"tmpV", "tmpA"}
    /\ res' = [res EXCEPT ![r] = Answer(@, 500)]
    /\ pc' = [pc EXCEPT ![r] = "error"]
    /\ UNCHANGED <<req, attempt, videoF, audioF, vTmp, aTmp, fetch, ff, disk,
                   crashed, rateLimiter, now,
                   media, infoVars, popupVars>>

(* ------------------------- track fetches ------------------------------ *)
\* a join that lets the handler go on at the first fulfilled save()
AnySaved(f) == f["v"] = "finished" \/ f["a"] = "finished"

\* server.js:216  Promise.all([save, save]) is fulfilled
AllSaved(f) == f["v"] = "finished" /\ f["a"] = "finished"

\* the codec directives of a remux, always "copy" for the video
VideoCodec == "copy"

\* server.js:225  audioF.container.startsWith("webm") ? "aac" : "copy"
\* (of the containers of the model only "webm" starts with "webm")
AudioCodec(f) == IF f.container = "webm" THEN "aac" ELSE "copy"

\* server.js:226
AudioBitrate == "192k"

\* server.js:221-228  the directives ffmpeg is started with for request r
FfmpegArgs(r) ==
    [videoCodec |-> VideoCodec, audioCodec |-> AudioCodec(audioF[r]),
     audioBitrate |-> AudioBitrate, format |-> "mp4"]

\* server.js:249, 216-237  the write stream of a save() emits 'finish': its
\* promise is fulfilled, and when that fulfils Promise.all the handler goes
\* on and starts ffmpeg
FetchFinish(r, t) ==
    /\ ~crashed
    /\ fetch[r][t] = "running"
    /\ LET f2 == [fetch[r] EXCEPT ![t] = "finished"]
       IN /\ fetch' = [fetch EXCEPT ![r] = f2]
          /\ IF pc[r] = "fetching" /\ AllSaved(f2)
             THEN /\ pc' = [pc EXCEPT ![r] = "muxing"]
                  /\ ff' = [ff EXCEPT ![r] = "running"]
             ELSE UNCHANGED <<pc, ff>>
    /\ UNCHANGED <<req, attempt, videoF, audioF, vTmp, aTmp, res, disk, crashed,
                   rateLimiter, now,
                   media, infoVars, popupVars>>

\* server.js:250, 238-241  the write stream of a save() emits 'error': its
\* promise is rejected; the first rejection rejects Promise.all and the
\* catch answers 500.  The other save() keeps running.
FetchWriteError(r, t) ==
    /\ ~crashed
    /\ fetch[r][t] = "running"
    /\ fetch' = [fetch EXCEPT ![r][t] = "rejected"]
    /\ IF pc[r] = "fetching"
       THEN /\ res' = [res EXCEPT ![r] = Answer(@, 500)]
            /\ pc' = [pc EXCEPT ![r] = "error"]
       ELSE UNCHANGED <<pc, res>>
    /\ UNCHANGED <<req, attempt, videoF, audioF, vTmp, aTmp, ff, disk, crashed,
                   rateLimiter, now,
                   media, infoVars, popupVars>>

\* server.js:247-250  the ytdl source stream of a save() emits 'error'.  The
\* listeners of save() are on the write stream (pipe returns its
\* destination) and pipe forwards no error, so the event has no listener:
\* node throws it as an uncaught exception and the process dies with the
\* promise still pending.
FetchSourceError(r, t) ==
    /\ ~crashed
    /\ fetch[r][t] = "running"
    /\ fetch' = [fetch EXCEPT ![r][t] = "srcError"]
    /\ crashed' = TRUE
    /\ UNCHANGED <<pc, req, attempt, videoF, audioF, vTmp, aTmp, ff, res, disk,
                   rateLimiter, now,
                   media, infoVars, popupVars>>

(* ------------------------------ remux --------------------------------- *)
\* an 'end' listener that forgets the audio file
UnlinkedVideoOnly(r) == disk \ {vTmp[r]}

\* server.js:230-231  the two fs.unlink calls of the 'end' listener
Unlinked(r) == disk \ {vTmp[r], aTmp[r]}

\* ffmpeg's output reaches the response (server.js:237 pipe)
FfmpegData(r) ==
    /\ ~crashed
    /\ pc[r] = "muxing" /\ ff[r] = "running"
    /\ res[r].st = "open" /\ ~res[r].bytes
    /\ res' = [res EXCEPT ![r] = Write(@)]
    /\ UNCHANGED <<pc, req, attempt, videoF, audioF, vTmp, aTmp, fetch, ff, disk,
                   crashed, rateLimiter, now,
                   media, infoVars, popupVars>>

\* server.js:229-232, 237  ffmpeg exits with success: its output has been
\* piped and the pipe ends the response ({end: true}); the 'end' listener
\* unlinks both temp files
FfmpegEnd(r) ==
    /\ ~crashed
    /\ pc[r] = "muxing" /\ ff[r] = "running"
    /\ ff' = [ff EXCEPT ![r] = "ended"]
    /\ disk' = Unlinked(r)
    /\ res' = [res EXCEPT ![r] = End(Write(@))]
    /\ pc' = [pc EXCEPT ![r] = "done"]
    /\ UNCHANGED <<req, attempt, videoF, audioF, vTmp, aTmp, fetch, crashed,
                   rateLimiter, now,
                   media, infoVars, popupVars>>

\* an 'error' listener that fetches the tracks again instead of giving up
FfmpegErrorRefetch(r) ==
    /\ ~crashed
    /\ pc[r] = "muxing" /\ ff[r] = "running"
    /\ ff' = [ff EXCEPT ![r] = "none"]
    /\ fetch' = [fetch EXCEPT ![r] = [t \in Tracks |-> "running"]]
    /\ pc' = [pc EXCEPT ![r] = "fetching"]
    /\ UNCHANGED <<req, attempt, videoF, audioF, vTmp, aTmp, res, disk, crashed,
                   rateLimiter, now, media, infoVars, popupVars>>

\* server.js:233-236  ffmpeg fails: the 'error' listener ends the response
FfmpegError(r) ==
    /\ ~crashed
    /\ pc[r] = "muxing" /\ ff[r] = "running"
    /\ ff' = [ff EXCEPT ![r] = "failed"]
    /\ res' = [res EXCEPT ![r] = End(@)]
    /\ pc' = [pc EXCEPT ![r] = "error"]
    /\ UNCHANGED <<req, attempt, videoF, audioF, vTmp, aTmp, fetch, disk, crashed,
                   rateLimiter, now,
                   media, infoVars, popupVars>>

\* server.js:233-237  the response ffmpeg pipes into is closed: fluent-ffmpeg
\* kills the subprocess and emits 'error' ("Output stream closed"); the
\* listener's res.end() finds the response gone
FfmpegKilled(r) ==
    /\ ~crashed
    /\ pc[r] = "muxing" /\ ff[r] = "running"
    /\ res[r].st = "closed"
    /\ ff' = [ff EXCEPT ![r] = "killed"]
    /\ res' = [res EXCEPT ![r] = End(@)]
    /\ pc' = [pc EXCEPT ![r] = "error"]
    /\ UNCHANGED <<req, attempt, videoF, audioF, vTmp, aTmp, fetch, disk, crashed,
                   rateLimiter, now,
                   media, infoVars, popupVars>>

(* -------------------------- direct stream ----------------------------- *)
\* server.js:200  a chunk of the ytdl stream is piped to the response
DirectData(r) ==
    /\ ~crashed
    /\ pc[r] = "direct" /\ ~res[r].bytes
    /\ res' = [res EXCEPT ![r] = Write(@)]
    /\ UNCHANGED <<pc, req, attempt, videoF, audioF, vTmp, aTmp, fetch, ff, disk,
                   crashed, rateLimiter, now,
                   media, infoVars, popupVars>>

\* server.js:200  the ytdl stream ends: pipe ends the response
DirectEnd(r) ==
    /\ ~crashed
    /\ pc[r] = "direct"
    /\ res' = [res EXCEPT ![r] = End(Write(@))]
    /\ pc' = [pc EXCEPT ![r] = "done"]
    /\ UNCHANGED <<req, attempt, videoF, audioF, vTmp, aTmp, fetch, ff, disk,
                   crashed, rateLimiter, now,
                   media, infoVars, popupVars>>

\* server.js:200  the ytdl stream emits 'error': it has no listener, node
\* throws it as an uncaught exception and the process dies; the response is
\* never ended
DirectSourceError(r) ==
    /\ ~crashed
    /\ pc[r] = "direct"
    /\ crashed' = TRUE
    /\ UNCHANGED <<pc, req, attempt, videoF, audioF, vTmp, aTmp, fetch, ff, res,
                   disk, rateLimiter, now,
                   media, infoVars, popupVars>>

(* ------------------------------ client -------------------------------- *)
\* The client goes away while bytes are (to be) transferred.  The handler
\* listens to no 'close' event: a direct pipe just stops (the request is
\* over, unfinished), a fetch goes on, a running ffmpeg is dealt with by
\* FfmpegKilled.
ClientDisconnect(r) ==
    /\ ~crashed
    /\ pc[r] \in {"direct", "fetching", "muxing"}
    /\ res[r].st = "open"
    /\ res' = [res EXCEPT ![r].st = "closed"]
    /\ pc' = [pc EXCEPT ![r] = IF @ = "direct" THEN "error" ELSE @]
    /\ UNCHANGED <<req, attempt, videoF, audioF, vTmp, aTmp, fetch, ff, disk,
                   crashed, rateLimiter, now,
                   media, infoVars, popupVars>>

(* ------------------------------ /info --------------------------------- *)
\* what an extractor error says: the phrases its message contains
ErrMsgs == { {"Sign in"}, {"bot"}, {"Status code: 410", "410"},
             {"socket hang up"} }
NoErr == {}

\* String.prototype.includes on an error message
Includes(msg, phrase) == phrase \in msg

\* the body of an answer: title and formats of a menu, or the error text
\* ("" where the body has no such member)
NoPayload == [title |-> "", formats |-> <<>>, error |-> ""]

\* { error: text }
Failure(text) == [NoPayload EXCEPT !.error = text]
FreshInfoRes == [status |-> 0, body |-> NoPayload]
NoInfoReq == [url |-> NoUrl, ip |-> "c1"]

\* res.json(payload) with the status set before (200 when none was)
Json(code, payload) == [status |-> code, body |-> payload]

\* a lookup that still serves an entry whose age is exactly TTL
CacheHitInclusive(k) == k \in DOMAIN cache /\ now - cache[k].ts <= TTL

\* server.js:120  the cache holds a live entry for the key
CacheHit(k) == k \in DOMAIN cache /\ now - cache[k].ts < TTL

\* a cache.set that stores the formats without the title
CacheSetFormatsOnly(k, payload) ==
    [x \in DOMAIN cache \cup {k} |->
        IF x = k THEN [data |-> [payload EXCEPT !.title = ""], ts |-> now]
        ELSE cache[x]]

\* server.js:158  cache.set(key, {data, ts})
CacheSet(k, payload) ==
    [x \in DOMAIN cache \cup {k} |->
        IF x = k THEN [data |-> payload, ts |-> now] ELSE cache[x]]

\* a catch whose last branch answers 404
StatusOfErrorNotFound(msg) ==
    IF Includes(msg, "bot") \/ Includes(msg, "Sign in") THEN 403 ELSE 404

\* server.js:160-171  the status the catch of /info answers with
StatusOfError(msg) ==
    IF Includes(msg, "bot") \/ Includes(msg, "Sign in") THEN 403
    ELSE IF Includes(msg, "410") THEN 404
    ELSE 500

\* server.js:160-171  the text that goes with it
TextOfError(msg) ==
    IF Includes(msg, "bot") \/ Includes(msg, "Sign in")
    THEN "YouTube blocked the request; try again later."
    ELSE IF Includes(msg, "410") THEN "Video not accessible via API (410)."
    ELSE "Failed to fetch video info"

\* a request reaches the server; requests are numbered in arrival order
InfoArrive(q) ==
    /\ ~crashed
    /\ ipc[q] = "idle"
    /\ \A o \in IReq : o < q => ipc[o] # "idle"
    /\ \E u \in InfoUrls, c \in Clients :
          ireq' = [ireq EXCEPT ![q] = [url |-> u, ip |-> c]]
    /\ ipc' = [ipc EXCEPT ![q] = "received"]
    /\ UNCHANGED <<popupVars, dlVars, iattempt, ierr, ires, cache, rateLimiter, now, media>>

\* server.js:108-124  the handler up to its await
InfoHandle(q) ==
    /\ ~crashed
    /\ ipc[q] = "received"
    /\ rateLimiter' = AfterTooMany(ireq[q].ip)
    /\ LET videoUrl == cleanWatchURL(ireq[q].url)
       IN IF tooMany(ireq[q].ip)
          THEN /\ ires' = [ires EXCEPT ![q] =
                            Json(429, Failure("Too many requests; slow down."))]
               /\ ipc' = [ipc EXCEPT ![q] = "answered"]
          ELSE IF ireq[q].url = NoUrl
          THEN /\ ires' = [ires EXCEPT ![q] =
                            Json(400, Failure("Missing URL parameter"))]
               /\ ipc' = [ipc EXCEPT ![q] = "answered"]
          ELSE IF ~validateURL(videoUrl)
          THEN /\ ires' = [ires EXCEPT ![q] =
                            Json(400, Failure("Invalid YouTube URL"))]
               /\ ipc' = [ipc EXCEPT ![q] = "answered"]
          ELSE IF CacheHit(videoUrl)
          THEN /\ ires' = [ires EXCEPT ![q] = Json(200, cache[videoUrl].data)]
               /\ ipc' = [ipc EXCEPT ![q] = "answered"]
          ELSE /\ ires' = ires
               /\ ipc' = [ipc EXCEPT ![q] = "resolving"]
    /\ UNCHANGED <<popupVars, dlVars, ireq, iattempt, ierr, cache, now, media>>

\* server.js:95-104, 160-171  one strategy of getVideoInfoWithFallback
\* throws: the next one is tried; the error of the last one reaches the
\* catch of /info
InfoStrategyFails(q) ==
    /\ ~crashed
    /\ ipc[q] = "resolving"
    /\ \E msg \in ErrMsgs :
         IF iattempt[q] < LastStrategy
         THEN /\ iattempt' = [iattempt EXCEPT ![q] = @ + 1]
              /\ ierr' = [ierr EXCEPT ![q] = msg]
              /\ UNCHANGED <<ipc, ires>>
         ELSE /\ ires' = [ires EXCEPT ![q] =
                           Json(StatusOfError(msg), Failure(TextOfError(msg)))]
              /\ ipc' = [ipc EXCEPT ![q] = "answered"]
              /\ iattempt' = [iattempt EXCEPT ![q] = 0]
              /\ ierr' = [ierr EXCEPT ![q] = msg]
    /\ UNCHANGED <<popupVars, dlVars, ireq, cache, rateLimiter, now, media>>

\* server.js:124-159  a strategy answers with info: the menu is built,
\* cached and sent, or 404 is answered for an empty menu
InfoResolved(q) ==
    /\ ~crashed
    /\ ipc[q] = "resolving"
    /\ LET videoUrl == cleanWatchURL(ireq[q].url)
           formats == BuildMenu(media[videoUrl.id])
           payload == [title |-> videoUrl.id, formats |-> formats, error |-> ""]
       IN IF formats = <<>>
          THEN /\ ires' = [ires EXCEPT ![q] =
                            Json(404, Failure("No suitable formats found"))]
               /\ UNCHANGED cache
          ELSE /\ cache' = CacheSet(videoUrl, payload)
               /\ ires' = [ires EXCEPT ![q] = Json(200, payload)]
    /\ media' = [media EXCEPT ![cleanWatchURL(ireq[q].url).id] =
                                  FormatsAfterBuild(@)]
    /\ ipc' = [ipc EXCEPT ![q] = "answered"]
    /\ iattempt' = [iattempt EXCEPT ![q] = 0]
    /\ ierr' = [ierr EXCEPT ![q] = NoErr]
    /\ UNCHANGED <<popupVars, dlVars, ireq, rateLimiter, now>>

(* ------------------------------ popup --------------------------------- *)
\* The texts of the url field: empty, a text that is no YouTube url, and
\* the watch urls of two videos.
UrlTexts == {"", "x", "A", "B"}

\* popup.js:145  isValidYtUrl
isValidYtUrl(u) == u \in {"A", "B"}

\* the variants of the two videos the popup asks for
Library == [v \in {"A", "B"} |->
              IF v = "A" THEN <<F137, F18, F140>> ELSE <<F248, F251>>]

\* videoInfo = null, no response, no request, lastErr undefined
NoInfo == [title |-> "", formats |-> <<>>, error |-> "null"]
NoResponse == [ok |-> FALSE, status |-> 0, json |-> NoPayload]
NoSent == [url |-> "", itag |-> NoItag]
NoError == "undefined"

\* what the server may answer to /info?url=u: the menu of u, a payload
\* without formats, an error with a JSON text, an error without JSON
Responses(u) ==
    { [ok |-> TRUE, status |-> 200,
       json |-> [title |-> u, formats |-> BuildMenu(Library[u]), error |-> ""]],
      [ok |-> TRUE, status |-> 200,
       json |-> [title |-> u, formats |-> <<>>, error |-> ""]],
      [ok |-> FALSE, status |-> 404, json |-> Failure("No suitable formats found")],
      [ok |-> FALSE, status |-> 500, json |-> NoPayload] }

\* what makes a fetch reject: the abort of the timeout, a network failure
FetchErrs == {"AbortError", "Failed to fetch"}

\* the state of the popup after window.onload
PopupLoaded ==
    /\ urlInput = ""
    /\ busy = FALSE
    /\ videoInfo = NoInfo
    /\ options = <<>>
    /\ selected = 0
    /\ arrowHidden = FALSE
    /\ downloadHidden = TRUE
    /\ fpc = "idle"
    /\ yt = ""
    /\ tries = 0
    /\ tryI = 0
    /\ fetched = 0
    /\ waits = <<>>
    /\ lastErr = NoError
    /\ response = NoResponse
    /\ pending = 0
    /\ sent = NoSent

\* the user types into the url field (it is never disabled)
EditUrl(u) ==
    /\ u # urlInput
    /\ urlInput' = u
    /\ UNCHANGED <<busy, videoInfo, options, selected, arrowHidden,
                   downloadHidden, fpc, yt, tries, tryI, fetched, waits,
                   lastErr, response, pending, sent>>
    /\ UNCHANGED <<dlVars, infoVars, rateLimiter, now, media>>

\* the user picks an option of $quality
SelectOption(i) ==
    /\ i \in 1..Len(options) /\ i # selected
    /\ selected' = i
    /\ UNCHANGED <<urlInput, busy, videoInfo, options, arrowHidden,
                   downloadHidden, fpc, yt, tries, tryI, fetched, waits,
                   lastErr, response, pending, sent>>
    /\ UNCHANGED <<dlVars, infoVars, rateLimiter, now, media>>

\* a click handler that does not look at busy
MayStartAlways == TRUE

\* popup.js:28-29  !busy && ...
MayStart == ~busy

\* a delay that doubles without a cap
BackoffUncapped(i) == 2000 * 2 ^ i

\* popup.js:163  Math.min(2000 * 2 ** i, 10000)
Backoff(i) == IF 2000 * 2 ^ i < 10000 THEN 2000 * 2 ^ i ELSE 10000

\* popup.js:156-160  fetchWithRetry(url, n, timeout) up to its first await:
\* the first fetch is started, or the loop is not entered and lastErr
\* (undefined) is thrown
Enter(n) ==
    /\ tries' = n
    /\ tryI' = 0
    /\ waits' = <<>>
    /\ lastErr' = NoError
    /\ response' = NoResponse
    /\ IF n > 0
       THEN fpc' = "fetch" /\ fetched' = 1
       ELSE fpc' = "threw" /\ fetched' = 0

\* fetchWithRetry is called with n tries for the url u
RetryCall(u, n) ==
    /\ fpc \in {"idle", "returned", "threw"}
    /\ yt' = u
    /\ Enter(n)
    /\ UNCHANGED <<urlInput, busy, videoInfo, options, selected, arrowHidden,
                   downloadHidden, pending, sent>>
    /\ UNCHANGED <<dlVars, infoVars, rateLimiter, now, media>>

\* popup.js:28, 48-56  a click on the arrow: fetchFormats up to its await
ClickArrow ==
    /\ MayStart
    /\ ~arrowHidden
    /\ isValidYtUrl(urlInput)
    /\ busy' = TRUE
    /\ yt' = urlInput
    /\ Enter(2)
    /\ UNCHANGED <<urlInput, videoInfo, options, selected, arrowHidden,
                   downloadHidden, pending, sent>>
    /\ UNCHANGED <<dlVars, infoVars, rateLimiter, now, media>>

\* popup.js:152, 160  the fetch is fulfilled with a response of any status:
\* fetchWithRetry returns it
FetchResponds ==
    /\ fpc = "fetch"
    /\ \E resp \in Responses(yt) : response' = resp
    /\ fpc' = "returned"
    /\ UNCHANGED <<urlInput, busy, videoInfo, options, selected, arrowHidden,
                   downloadHidden, yt, tries, tryI, fetched, waits, lastErr,
                   pending, sent>>
    /\ UNCHANGED <<dlVars, infoVars, rateLimiter, now, media>>

\* popup.js:151, 161-163  the fetch rejects (the timer aborted it, or the
\* network failed): lastErr is kept and the backoff timer is set
FetchFails(e) ==
    /\ fpc = "fetch"
    /\ lastErr' = e
    /\ waits' = Append(waits, Backoff(tryI))
    /\ fpc' = "backoff"
    /\ UNCHANGED <<urlInput, busy, videoInfo, options, selected, arrowHidden,
                   downloadHidden, yt, tries, tryI, fetched, response,
                   pending, sent>>
    /\ UNCHANGED <<dlVars, infoVars, rateLimiter, now, media>>

\* popup.js:158-166  the backoff timer fires: the next fetch is started, or
\* lastErr is thrown when the loop is over
BackoffDone ==
    /\ fpc = "backoff"
    /\ tryI' = tryI + 1
    /\ IF tryI + 1 < tries
       THEN fpc' = "fetch" /\ fetched' = fetched + 1
       ELSE fpc' = "threw" /\ fetched' = fetched
    /\ UNCHANGED <<urlInput, busy, videoInfo, options, selected, arrowHidden,
                   downloadHidden, yt, tries, waits, lastErr, response,
                   pending, sent>>
    /\ UNCHANGED <<dlVars, infoVars, rateLimiter, now, media>>

\* popup.js:116-125  the option values buildSelect leaves in $quality
OptionsOf(list) == [i \in 1..Len(list) |-> list[i].itag]

\* popup.js:58-85  fetchFormats after its await: the menu is shown, or the
\* catch clears it; finally busy is reset
FetchFormatsDone ==
    /\ fpc \in {"returned", "threw"}
    /\ IF fpc = "returned" /\ response.ok /\ response.json.formats # <<>>
       THEN /\ videoInfo' = response.json
            /\ options' = OptionsOf(response.json.formats)
            /\ selected' = 1
            /\ downloadHidden' = FALSE
            /\ arrowHidden' = TRUE
       ELSE /\ videoInfo' = IF fpc = "returned" /\ response.ok
                            THEN response.json ELSE videoInfo
            /\ options' = <<>>
            /\ selected' = 0
            /\ downloadHidden' = TRUE
            /\ arrowHidden' = FALSE
    /\ busy' = FALSE
    /\ fpc' = "idle"
    /\ UNCHANGED <<urlInput, yt, tries, tryI, fetched, waits, lastErr,
                   response, pending, sent>>
    /\ UNCHANGED <<dlVars, infoVars, rateLimiter, now, media>>

\* popup.js:29, 89-104  a click on the download button: startDownload
ClickDownload ==
    /\ MayStart
    /\ videoInfo # NoInfo
    /\ ~downloadHidden
    /\ urlInput # "" /\ selected # 0
    /\ busy' = TRUE
    /\ sent' = [url |-> urlInput, itag |-> options[selected]]
    /\ pending' = pending + 1
    /\ UNCHANGED <<urlInput, videoInfo, options, selected, arrowHidden,
                   downloadHidden, fpc, yt, tries, tryI, fetched, waits,
                   lastErr, response>>
    /\ UNCHANGED <<dlVars, infoVars, rateLimiter, now, media>>

\* popup.js:105-111  the callback of chrome.downloads.download, with or
\* without chrome.runtime.lastError
DownloadCallback ==
    /\ pending > 0
    /\ pending' = pending - 1
    /\ busy' = FALSE
    /\ UNCHANGED <<urlInput, videoInfo, options, selected, arrowHidden,
                   downloadHidden, fpc, yt, tries, tryI, fetched, waits,
                   lastErr, response, sent>>
    /\ UNCHANGED <<dlVars, infoVars, rateLimiter, now, media>>

(* ------------------------- the specifications ------------------------- *)
\* hits the client made before the first request of the behaviour
EarlierHits == {<<>>, [i \in 1..(MAX_REQS_WINDOW - 1) |-> 0]}

\* the state of a freshly started server
Started ==
    /\ pc = [r \in Req |-> "idle"]
    /\ req = [r \in Req |-> NoReq]
    /\ attempt = [r \in Req |-> 0]
    /\ videoF = [r \in Req |-> NoFormat]
    /\ audioF = [r \in Req |-> NoFormat]
    /\ vTmp = [r \in Req |-> NoFile]
    /\ aTmp = [r \in Req |-> NoFile]
    /\ fetch = [r \in Req |-> [t \in Tracks |-> "none"]]
    /\ ff = [r \in Req |-> "none"]
    /\ res = [r \in Req |-> FreshRes]
    /\ disk = {}
    /\ crashed = FALSE
    /\ now = 0
    /\ ipc = [q \in IReq |-> "idle"]
    /\ ireq = [q \in IReq |-> NoInfoReq]
    /\ iattempt = [q \in IReq |-> 0]
    /\ ierr = [q \in IReq |-> NoErr]
    /\ ires = [q \in IReq |-> FreshInfoRes]
    /\ cache = << >>
    /\ PopupLoaded

\* downloads: the server has run for a while (the client may have made
\* requests before) and serves videos of Catalogs
Init ==
    /\ Started
    /\ rateLimiter \in [Clients -> EarlierHits]
    /\ media \in [VideoIds -> Catalogs]

Step(r) ==
    \/ DlArrive(r)
    \/ DlHandle(r)
    \/ DlStrategyFails(r)
    \/ DlResolved(r)
    \/ DlTmpV(r)
    \/ DlTmpA(r)
    \/ DlTmpFails(r)
    \/ \E t \in Tracks : FetchFinish(r, t)
    \/ \E t \in Tracks : FetchWriteError(r, t)
    \/ \E t \in Tracks : FetchSourceError(r, t)
    \/ FfmpegData(r)
    \/ FfmpegEnd(r)
    \/ FfmpegError(r)
    \/ FfmpegKilled(r)
    \/ DirectData(r)
    \/ DirectEnd(r)
    \/ DirectSourceError(r)
    \/ ClientDisconnect(r)

Next == \E r \in Req : Step(r)

Spec == Init /\ [][Next]_vars

\* the extractor, the upstream streams, the file system and the subprocess
\* all answer in the end
FairSpec == Spec /\ \A r \in Req : WF_vars(Step(r))

\* the transfer planner: one download against every list of PlanLists
PlanInit ==
    /\ Started
    /\ rateLimiter = [c \in Clients |-> <<>>]
    /\ media \in [VideoIds -> PlanLists]

PlanNext == Step(1)

PlanSpec == PlanInit /\ [][PlanNext]_vars

\* the menu builder: one /info request against every variant list
MenuInit ==
    /\ Started
    /\ rateLimiter = [c \in Clients |-> <<>>]
    /\ media \in [VideoIds -> FormatLists]

InfoStep(q) ==
    \/ InfoArrive(q)
    \/ InfoHandle(q)
    \/ InfoStrategyFails(q)
    \/ InfoResolved(q)

MenuNext == InfoStep(1)

MenuSpec == MenuInit /\ [][MenuNext]_vars

\* several /info requests, in any interleaving, for one video
InfoInit ==
    /\ Started
    /\ rateLimiter = [c \in Clients |-> <<>>]
    /\ media \in [VideoIds -> Replays]

InfoNext == \E q \in IReq : InfoStep(q)

InfoSpec == InfoInit /\ [][InfoNext]_vars

\* Date.now() moves on by half a TTL between two steps of the server
TickMs == TTL \div 2

Tick ==
    /\ ~crashed
    /\ now < MaxTicks * TickMs
    /\ now' = now + TickMs
    /\ UNCHANGED <<popupVars, dlVars, infoVars, rateLimiter, media>>

\* the cache over time: /info requests for one video while the clock runs
CacheInit ==
    /\ Started
    /\ rateLimiter = [c \in Clients |-> <<>>]
    /\ media = [v \in VideoIds |-> <<F137, F18, F140>>]

CacheNext == Tick \/ \E q \in IReq : InfoStep(q)

CacheSpec == CacheInit /\ [][CacheNext]_vars

\* Date.now() moves on by half a rate-limit window
WindowTick ==
    /\ ~crashed
    /\ now < MaxTicks * (WINDOW_MS \div 2)
    /\ now' = now + (WINDOW_MS \div 2)
    /\ UNCHANGED <<popupVars, dlVars, infoVars, rateLimiter, media>>

\* the whole server: one /download and one /info request of a client that
\* may have made requests before, for a video with or without variants,
\* while the clock runs
ServerInit ==
    /\ Started
    /\ rateLimiter \in [Clients -> EarlierHits]
    /\ media \in [VideoIds -> {<<F137, F18, F140>>, <<>>}]

ServerNext == WindowTick \/ Step(1) \/ InfoStep(1)

ServerSpec == ServerInit /\ [][ServerNext]_vars

\* the popup: url edits, clicks, and what the network and chrome answer
PopupInit ==
    /\ Started
    /\ rateLimiter = [c \in Clients |-> <<>>]
    /\ media = [v \in VideoIds |-> <<F137, F18, F140>>]

PopupNext ==
    \/ \E u \in UrlTexts : EditUrl(u)
    \/ \E i \in 1..MaxFormats : SelectOption(i)
    \/ ClickArrow
    \/ FetchResponds
    \/ \E e \in FetchErrs : FetchFails(e)
    \/ BackoffDone
    \/ FetchFormatsDone
    \/ ClickDownload
    \/ DownloadCallback

PopupSpec == PopupInit /\ [][PopupNext]_vars

\* fetchWithRetry on its own, called with 0..MaxTries tries
RetryNext ==
    \/ \E u \in {"A", "B"}, n \in 0..MaxTries : RetryCall(u, n)
    \/ FetchResponds
    \/ \E e \in FetchErrs : FetchFails(e)
    \/ BackoffDone

RetrySpec == PopupInit /\ [][RetryNext]_vars

\* the abort timer of fetchWithTimeout ends every fetch that neither is
\* answered nor fails, and the backoff timer fires
RetryFairSpec ==
    /\ RetrySpec
    /\ WF_vars(FetchResponds \/ \E e \in FetchErrs : FetchFails(e))
    /\ WF_vars(BackoffDone)

(* ------------------------------ claims -------------------------------- *)
\* the promise a save() returned
SavePromise(r, t) ==
    CASE fetch[r][t] = "finished" -> "fulfilled"
      [] fetch[r][t] = "rejected" -> "rejected"
      [] OTHER -> "pending"

NoFileLeft(r) == FilesOf(r) \cap disk = {}

\* C1: when a download that took the merge path has reached a terminal
\* state (done or error, whatever the outcome was), none of the temp files
\* it created is on disk any more.
C1_NoTempFileAtTerminal ==
    \A r \in Req : Terminal(r) => NoFileLeft(r)

\* C2: when a download ended in Error because one of its two track fetches
\* was rejected, neither the failed fetch's file nor the other fetch's file
\* is on disk.
C2_NoOrphanAfterFetchFailure ==
    \A r \in Req :
        (pc[r] = "error" /\ \E t \in Tracks : fetch[r][t] = "rejected")
            => (vTmp[r] \notin disk /\ aTmp[r] \notin disk)

\* C3: once a merge download whose client went away in the middle of the
\* remuxed stream is over, its subprocess runs no more and both temp files
\* are removed.
C3_DisconnectCleansUp ==
    \A r \in Req :
        (Terminal(r) /\ ff[r] # "none" /\ res[r].st = "closed" /\ res[r].bytes)
            => (ff[r] # "running" /\ NoFileLeft(r))

\* C4: after a failure of the remux subprocess the response is ended and
\* both temp files are removed.
C4_RemuxFailureCleansUp ==
    \A r \in Req :
        ff[r] = "failed" => (res[r].st # "open" /\ NoFileLeft(r))

\* C5: a temp file a download created is missing from the disk exactly when
\* ffmpeg has signalled 'end': never while the subprocess runs (or before it
\* started), and both are gone after the signal.
C5_UnlinkOnlyAfterEnd ==
    \A r \in Req :
        /\ vTmp[r] # NoFile => (vTmp[r] \notin disk <=> ff[r] = "ended")
        /\ aTmp[r] # NoFile => (aTmp[r] \notin disk <=> ff[r] = "ended")
        /\ ff[r] = "running" => (vTmp[r] \in disk /\ aTmp[r] \in disk)

\* a merge download succeeded and its two temp files are gone
C5_Witness ==
    \E r \in Req :
        /\ pc[r] = "done" /\ ff[r] = "ended"
        /\ vTmp[r] # NoFile /\ aTmp[r] # NoFile
        /\ NoFileLeft(r)

\* C6: ffmpeg is started for a download only when both of its save() calls
\* have finished with success; a download one of whose fetches failed never
\* has an ffmpeg.
C6_MuxOnlyAfterBothSaved ==
    \A r \in Req :
        /\ ff[r] # "none" =>
              (fetch[r]["v"] = "finished" /\ fetch[r]["a"] = "finished")
        /\ (\E t \in Tracks : fetch[r][t] \in {"rejected", "srcError"}) =>
              ff[r] = "none"

\* ffmpeg runs after the audio fetch finished first and the video fetch last
C6_Witness ==
    \E r \in Req, q \in Req :
        /\ ff[r] = "running" /\ fetch[r]["v"] = "finished"
        /\ fetch[r]["a"] = "finished"
        /\ pc[q] = "error" /\ fetch[q]["a"] = "finished"
        /\ fetch[q]["v"] = "rejected" /\ ff[q] = "none"

\* C7: whenever the source stream or the file write of a save() has failed,
\* the promise save() returned is rejected.
C7_SaveRejectsOnAnyError ==
    \A r \in Req, t \in Tracks :
        fetch[r][t] \in {"rejected", "srcError"} => SavePromise(r, t) = "rejected"

\* C8: a download is never suspended: a request that has arrived either has
\* reached a terminal state with its response no longer open, or can take a
\* further step.
C8_NeverSuspended ==
    \A r \in Req :
        IF Terminal(r) THEN res[r].st # "open"
        ELSE pc[r] = "idle" \/ ENABLED Step(r)

\* C9: a download changes its state only along the edges of the state
\* machine Received -> Planning -> DirectStreaming -> Done,
\* Planning -> FetchingTracks -> Muxing -> Done, non-terminal -> Error
\* (so no state is entered twice and Done and Error are never left).
C9_OneWayEdges ==
    [][LET NonTerminal == {"Received", "Planning", "DirectStreaming",
                           "FetchingTracks", "Muxing"}
           Edges == { <<"None", "Received">>, <<"Received", "Planning">>,
                      <<"Planning", "DirectStreaming">>,
                      <<"DirectStreaming", "Done">>,
                      <<"Planning", "FetchingTracks">>,
                      <<"FetchingTracks", "Muxing">>, <<"Muxing", "Done">> }
                    \cup { <<x, "Error">> : x \in NonTerminal }
       IN \A r \in Req :
            State(r)' # State(r) => <<State(r), State(r)'>> \in Edges]_vars

\* one download went to Error out of Muxing, another one out of
\* DirectStreaming
C9_Witness ==
    \E r \in Req, q \in Req :
        /\ pc[r] = "error" /\ ff[r] = "failed"
        /\ pc[q] = "error" /\ res[q].ct /\ res[q].st = "closed"

\* C10: the menu an /info request answers with has at most one entry per
\* bucket label, every label is one of the five, and every entry's itag is
\* the itag of exactly one variant of the list the extractor returned.
C10_MenuOneEntryPerLabel ==
    \A q \in IReq :
        LET m == ires[q].body.formats
        IN m # <<>> =>
            LET fs == media[cleanWatchURL(ireq[q].url).id]
            IN /\ \A i, j \in 1..Len(m) : m[i].label = m[j].label => i = j
               /\ \A i \in 1..Len(m) :
                    /\ m[i].label \in {"1080p", "720p", "480p", "360p", "Audio only"}
                    /\ Cardinality({n \in 1..Len(fs) : fs[n].itag = m[i].itag}) = 1

\* three variants compete for two buckets: the menu has two entries
C10_Witness ==
    \E q \in IReq :
        /\ ires[q].status = 200
        /\ Len(ires[q].body.formats) = 2
        /\ LET fs == media[cleanWatchURL(ireq[q].url).id]
           IN /\ Len(fs) = 3
              /\ \A n \in 1..3 : fs[n].hasVideo /\ HeightOf(fs[n]) >= 720
              /\ HeightOf(fs[1]) >= 1080 /\ HeightOf(fs[2]) >= 1080

(* --------------------------- menu claims ------------------------------ *)
\* the variant list the extractor returns for the video of /info request q
ListOf(q) == media[cleanWatchURL(ireq[q].url).id]

\* the menu /info request q was answered with (<<>> when it got none)
MenuOf(q) == ires[q].body.formats

\* a variant qualifies for a bucket when, alone in a list, it fills it
QualifiesFor(f, label) ==
    \E i \in 1..Len(BuildMenu(<<f>>)) : BuildMenu(<<f>>)[i].label = label

\* the positions of the variants of fs that qualify for the bucket
Qualifying(fs, label) == {n \in 1..Len(fs) : QualifiesFor(fs[n], label)}

\* C11: every entry of a menu names the first variant, in input order, that
\* qualifies for the entry's bucket; no later qualifying variant replaces
\* it, whatever its size or height.
C11_FirstQualifyingWins ==
    \A q \in IReq :
        MenuOf(q) # <<>> =>
            \A i \in 1..Len(MenuOf(q)) :
                LET S == Qualifying(ListOf(q), MenuOf(q)[i].label)
                IN /\ S # {}
                   /\ MenuOf(q)[i].itag = ListOf(q)[Min(S)].itag

\* two variants qualify for 1080p, the later one is the bigger and has
\* another height: the menu names the earlier one
C11_Witness ==
    \E q \in IReq :
        /\ ires[q].status = 200
        /\ Len(ListOf(q)) >= 2
        /\ {1, 2} \subseteq Qualifying(ListOf(q), "1080p")
        /\ ListOf(q)[2].contentLength > ListOf(q)[1].contentLength
        /\ ListOf(q)[2].height # ListOf(q)[1].height
        /\ MenuOf(q)[1].label = "1080p"
        /\ MenuOf(q)[1].itag = ListOf(q)[1].itag

\* the variants of the list of request q that a menu entry names
Chosen(q, e) == {n \in 1..Len(ListOf(q)) : ListOf(q)[n].itag = e.itag}

\* C12: in a menu, the bucket 1080p is filled exactly when the list has a
\* video variant of resolution >= 1080, 720p exactly when it has one in
\* [720, 1080), 480p in [480, 720), 360p in [360, 480), and the variant an
\* entry names carries video and has its resolution in the entry's range;
\* so a variant below 360 or without resolution or without video is in no
\* video bucket.
C12_BucketByResolution ==
    LET Range == [k \in {"1080p", "720p", "480p", "360p"} |->
                    CASE k = "1080p" -> <<1080, 1000000>>
                      [] k = "720p" -> <<720, 1080>>
                      [] k = "480p" -> <<480, 720>>
                      [] k = "360p" -> <<360, 480>>]
        In(f, k) == /\ f.hasVideo
                    /\ Range[k][1] <= HeightOf(f)
                    /\ HeightOf(f) < Range[k][2]
    IN \A q \in IReq :
        MenuOf(q) # <<>> =>
            \A k \in DOMAIN Range :
                /\ (\E i \in 1..Len(MenuOf(q)) : MenuOf(q)[i].label = k)
                      <=> (\E n \in 1..Len(ListOf(q)) : In(ListOf(q)[n], k))
                /\ \A i \in 1..Len(MenuOf(q)) :
                      MenuOf(q)[i].label = k =>
                          \A n \in Chosen(q, MenuOf(q)[i]) : In(ListOf(q)[n], k)

\* a variant of exactly 720 is under 720p; a video variant of 144 and one
\* without resolution are in the list and in no bucket
C12_Witness ==
    \E q \in IReq :
        /\ ires[q].status = 200
        /\ Len(ListOf(q)) = 3
        /\ ListOf(q)[1].hasVideo /\ ListOf(q)[1].height = 144
        /\ ListOf(q)[2].hasVideo /\ HeightOf(ListOf(q)[2]) = 0
        /\ ListOf(q)[3].height = 720
        /\ Len(MenuOf(q)) = 1
        /\ MenuOf(q)[1].label = "720p"
        /\ MenuOf(q)[1].itag = ListOf(q)[3].itag

\* the container acceptance lists of the catalog builder's configuration;
\* server.js has no such list
AcceptedVideo == {"mp4", "webm"}
AcceptedAudio == {"m4a", "mp4", "webm"}

VideoLabels == {"1080p", "720p", "480p", "360p"}

\* request q was answered by the menu builder: with a menu, or with its
\* "no suitable formats" failure
BuiltAnswer(q) ==
    ires[q].status = 200 \/ ires[q].body.error = "No suitable formats found"

\* C13: no entry of a menu for 1080p, 720p, 480p or 360p names a variant
\* whose container is outside the accepted video containers.
C13_VideoEntriesAccepted ==
    \A q \in IReq :
        \A i \in 1..Len(MenuOf(q)) :
            MenuOf(q)[i].label \in VideoLabels =>
                \A n \in Chosen(q, MenuOf(q)[i]) :
                    ListOf(q)[n].container \in AcceptedVideo

\* C15: the menu builder answers 404 exactly for the lists in which no
\* variant qualifies for any bucket (video of at least 360 in an accepted
\* container, or audio without video), the empty list among them, and then
\* the cache holds nothing.
C15_NoSuitableFormats ==
    \A q \in IReq :
        BuiltAnswer(q) =>
            LET Usable(f) ==
                    \/ /\ f.hasVideo /\ HeightOf(f) >= 360
                       /\ f.container \in AcceptedVideo
                    \/ f.hasAudio /\ ~f.hasVideo
                incompatible ==
                    \A n \in 1..Len(ListOf(q)) : ~Usable(ListOf(q)[n])
            IN /\ ires[q].status = 404 <=> incompatible
               /\ ires[q].status = 404 => cache = << >>

\* C16: for a list with a video variant and an audio-only variant, all in
\* accepted containers, the builder answers with a non-empty menu.
C16_VideoPlusAudioGivesMenu ==
    \A q \in IReq :
        LET fs == ListOf(q)
        IN ( /\ BuiltAnswer(q)
             /\ \E n \in 1..Len(fs) : fs[n].hasVideo
             /\ \E n \in 1..Len(fs) : fs[n].hasAudio /\ ~fs[n].hasVideo
             /\ \A n \in 1..Len(fs) :
                   IF fs[n].hasVideo THEN fs[n].container \in AcceptedVideo
                   ELSE fs[n].container \in AcceptedAudio )
           => (ires[q].status = 200 /\ MenuOf(q) # <<>>)

\* the only video variant is one without resolution: the menu has the
\* audio entry alone
C16_Witness ==
    \E q \in IReq :
        /\ ires[q].status = 200
        /\ Len(ListOf(q)) = 2
        /\ ListOf(q)[1].hasVideo /\ ListOf(q)[1].container = "mp4"
        /\ HeightOf(ListOf(q)[1]) = 0
        /\ ~ListOf(q)[2].hasVideo /\ ListOf(q)[2].container = "webm"
        /\ Len(MenuOf(q)) = 1
        /\ MenuOf(q)[1].label = "Audio only"

\* the number a resolution label starts with (0 when it has none)
LabelNumber(f) == ParseInt(FirstDigits(f.qualityLabel))

\* C14: the variant a video entry names has its numeric height, when it has
\* one, in the range of the entry's bucket, whatever its label says; only a
\* variant without numeric height is placed by the number of its label.
C14_HeightBeforeLabel ==
    LET Lo == [k \in VideoLabels |->
                 CASE k = "1080p" -> 1080 [] k = "720p" -> 720
                   [] k = "480p" -> 480 [] k = "360p" -> 360]
        Up == [k \in VideoLabels |->
                 CASE k = "1080p" -> 1000000 [] k = "720p" -> 1080
                   [] k = "480p" -> 720 [] k = "360p" -> 480]
    IN \A q \in IReq :
        \A i \in 1..Len(MenuOf(q)) :
            LET k == MenuOf(q)[i].label
            IN k \in VideoLabels =>
                \A n \in Chosen(q, MenuOf(q)[i]) :
                    LET f == ListOf(q)[n]
                        r == IF f.height # 0 THEN f.height ELSE LabelNumber(f)
                    IN Lo[k] <= r /\ r < Up[k]

\* a variant of height 804 labelled 1080p is under 720p, and the menu has
\* no 1080p entry
C14_Witness ==
    \E q \in IReq :
        /\ ires[q].status = 200
        /\ Len(ListOf(q)) >= 1
        /\ ListOf(q)[1].height = 804
        /\ LabelNumber(ListOf(q)[1]) = 1080
        /\ MenuOf(q)[1].label = "720p"
        /\ MenuOf(q)[1].itag = ListOf(q)[1].itag

\* C17: the entries of a menu stand in the order 1080p, 720p, 480p, 360p,
\* Audio only, whatever the order of the variants; a bucket has an entry
\* exactly when some variant qualifies for it, and the builder answers with
\* the menu as soon as one bucket is filled.
C17_FixedOrder ==
    LET Order == <<"1080p", "720p", "480p", "360p", "Audio only">>
        Pos(l) == CHOOSE p \in 1..5 : Order[p] = l
    IN \A q \in IReq :
        /\ \A i, j \in 1..Len(MenuOf(q)) :
              i < j => Pos(MenuOf(q)[i].label) < Pos(MenuOf(q)[j].label)
        /\ BuiltAnswer(q) =>
              \A p \in 1..5 :
                 /\ Qualifying(ListOf(q), Order[p]) # {} =>
                       /\ ires[q].status = 200
                       /\ \E i \in 1..Len(MenuOf(q)) : MenuOf(q)[i].label = Order[p]
                 /\ Qualifying(ListOf(q), Order[p]) = {} =>
                       \A i \in 1..Len(MenuOf(q)) : MenuOf(q)[i].label # Order[p]

\* the list has audio first, then a 360p and a 1080p variant: the menu is
\* 1080p, 360p, Audio only, and the buckets 720p and 480p are left out
C17_Witness ==
    \E q \in IReq :
        /\ ires[q].status = 200
        /\ Len(ListOf(q)) = 3
        /\ ~ListOf(q)[1].hasVideo
        /\ Len(MenuOf(q)) = 3
        /\ MenuOf(q)[1].label = "1080p" /\ MenuOf(q)[1].itag = ListOf(q)[3].itag
        /\ MenuOf(q)[2].label = "360p" /\ MenuOf(q)[2].itag = ListOf(q)[2].itag
        /\ MenuOf(q)[3].label = "Audio only"
        /\ MenuOf(q)[3].itag = ListOf(q)[1].itag

\* C18: the audio entry of a menu names the first variant of the list that
\* has audio and no video, and the menu has an audio entry exactly when the
\* list has such a variant; a variant with video and audio is named by
\* video entries only.
C18_AudioBucket ==
    \A q \in IReq :
        LET fs == ListOf(q)
            A == {n \in 1..Len(fs) : fs[n].hasAudio /\ ~fs[n].hasVideo}
        IN /\ \A i \in 1..Len(MenuOf(q)) :
                IF MenuOf(q)[i].label = "Audio only"
                THEN A # {} /\ Chosen(q, MenuOf(q)[i]) = {Min(A)}
                ELSE \A n \in Chosen(q, MenuOf(q)[i]) : fs[n].hasVideo
           /\ (BuiltAnswer(q) /\ A # {}) =>
                \E i \in 1..Len(MenuOf(q)) : MenuOf(q)[i].label = "Audio only"

\* a variant with video and audio comes first and is under 720p only; the
\* audio entry names the first of two audio-only variants after it
C18_Witness ==
    \E q \in IReq :
        /\ ires[q].status = 200
        /\ Len(ListOf(q)) = 3
        /\ ListOf(q)[1].hasVideo /\ ListOf(q)[1].hasAudio
        /\ \A n \in {2, 3} : ListOf(q)[n].hasAudio /\ ~ListOf(q)[n].hasVideo
        /\ Len(MenuOf(q)) = 2
        /\ MenuOf(q)[1].label = "720p" /\ MenuOf(q)[1].itag = ListOf(q)[1].itag
        /\ MenuOf(q)[2].label = "Audio only"
        /\ MenuOf(q)[2].itag = ListOf(q)[2].itag

C20_DirectPlan ==
    \A r \in Req :
        ( /\ videoF[r] # NoFormat
          /\ videoF[r].hasVideo /\ videoF[r].hasAudio
          /\ videoF[r].container = "mp4" )
        => /\ State(r) \in {"DirectStreaming", "Done", "Error"}
           /\ vTmp[r] = NoFile /\ aTmp[r] = NoFile
           /\ \A t \in Tracks : fetch[r][t] = "none"
           /\ ff[r] = "none"
           /\ res[r].ct

\* itag 18 was asked for and its stream has ended on the response, with no
\* file of this request on disk
C20_Witness ==
    \E r \in Req :
        /\ videoF[r] = F18 /\ pc[r] = "done"
        /\ res[r].bytes /\ res[r].st = "ended"
        /\ vTmp[r] = NoFile /\ ff[r] = "none"

\* C21: a download whose selected variant lacks audio or lacks video is
\* never streamed directly: it has an audio counterpart, or it has failed
\* without a temp file.
C21_NoDirectWithoutBothTracks ==
    \A r \in Req :
        (videoF[r] # NoFormat /\ ~(videoF[r].hasVideo /\ videoF[r].hasAudio))
        => /\ pc[r] # "direct" /\ ~res[r].ct
           /\ audioF[r] # NoFormat \/ (pc[r] = "error" /\ vTmp[r] = NoFile)

\* C22: whenever the list has an audio-only variant in an accepted audio
\* container, the audio counterpart of a video's merge is the first such
\* variant.
C22_AudioCounterpartAccepted ==
    \A r \in Req :
        (audioF[r] # NoFormat /\ videoF[r].hasVideo) =>
            LET fs == media[cleanWatchURL(req[r].url).id]
                A == {n \in 1..Len(fs) :
                        /\ fs[n].hasAudio /\ ~fs[n].hasVideo
                        /\ fs[n].container \in AcceptedAudio}
            IN A # {} => audioF[r] = fs[Min(A)]

\* C23: a download that needs a merge while no variant of the list has
\* audio ends with 404, without temp file and without track fetch.
C23_NoAudioIs404 ==
    \A r \in Req :
        LET fs == media[cleanWatchURL(req[r].url).id]
        IN ( /\ videoF[r] # NoFormat
             /\ \A n \in 1..Len(fs) : ~fs[n].hasAudio )
           => /\ pc[r] = "error" /\ res[r].status = 404
              /\ vTmp[r] = NoFile /\ aTmp[r] = NoFile
              /\ \A t \in Tracks : fetch[r][t] = "none"

\* C24: when the itag asked for is the itag of no variant of the list, the
\* request leaves planning with 404 and nothing else: no header, no byte,
\* no temp file, no fetch, no ffmpeg (or with the 500 of the catch, when it
\* was the last extraction strategy that was pending and it failed).
C24_UnknownItagIs404 ==
    [][\A r \in Req :
         ( /\ pc[r] = "resolving" /\ pc'[r] # "resolving"
           /\ \A n \in 1..Len(media[cleanWatchURL(req[r].url).id]) :
                 media[cleanWatchURL(req[r].url).id][n].itag # req[r].itag )
         => /\ pc'[r] = "error"
            /\ res'[r].status = 404
                 \/ (res'[r].status = 500 /\ attempt[r] = LastStrategy)
            /\ ~res'[r].cd /\ ~res'[r].ct /\ ~res'[r].bytes
            /\ videoF'[r] = NoFormat /\ audioF'[r] = NoFormat
            /\ vTmp'[r] = NoFile /\ aTmp'[r] = NoFile /\ disk' = disk
            /\ ff'[r] = "none" /\ \A t \in Tracks : fetch'[r][t] = "none"]_vars

\* itag 999 was asked of a video that the first strategy resolved: 404
C24_Witness ==
    \E r \in Req :
        /\ req[r].itag = 999 /\ pc[r] = "error"
        /\ res[r].status = 404 /\ res[r].st = "ended" /\ ~res[r].cd
        /\ Len(media[cleanWatchURL(req[r].url).id]) = 3

\* C25: a running or finished remux copies the video; it copies the audio
\* exactly when the audio's container is m4a or mp4, and otherwise encodes
\* it to AAC at 192k.
C25_CodecPolicy ==
    \A r \in Req :
        (ff[r] # "none" /\ videoF[r].hasVideo) =>
            /\ FfmpegArgs(r).videoCodec = "copy"
            /\ IF audioF[r].container \in {"m4a", "mp4"}
               THEN FfmpegArgs(r).audioCodec = "copy"
               ELSE /\ FfmpegArgs(r).audioCodec = "aac"
                    /\ FfmpegArgs(r).audioBitrate = "192k"

(* ---------------------------- cache claims ---------------------------- *)
\* C26: /info answers from the cache only from an entry younger than TTL
\* (900000 ms): a request answered 200 by the lookup found an entry of its
\* key with now - ts < 900000 and was answered with that entry's data.
C26_ServedOnlyWhileFresh ==
    [][\A q \in IReq :
         (ipc[q] = "received" /\ ipc'[q] = "answered" /\ ires'[q].status = 200)
         => /\ cleanWatchURL(ireq[q].url) \in DOMAIN cache
            /\ now - cache[cleanWatchURL(ireq[q].url)].ts < 900000
            /\ ires'[q].body = cache[cleanWatchURL(ireq[q].url)].data]_vars

\* the entry of the video is exactly TTL old and a request for it has gone
\* on to the extractor
C26_Witness ==
    \E q \in IReq :
        /\ ipc[q] = "resolving"
        /\ cleanWatchURL(ireq[q].url) \in DOMAIN cache
        /\ now - cache[cleanWatchURL(ireq[q].url)].ts = 900000

\* C27: the extractor is never at work for two /info requests of the same
\* url at the same time.
C27_OneExtractionPerUrl ==
    \A q \in IReq, o \in IReq :
        ( /\ q # o /\ ipc[q] = "resolving" /\ ipc[o] = "resolving"
          /\ cleanWatchURL(ireq[q].url) = cleanWatchURL(ireq[o].url) )
        => FALSE

\* C28: the keys of the cache are canonical urls, and a request whose raw
\* url carries the video id of a live entry is answered from that entry
\* without going to the extractor.
C28_CanonicalKey ==
    [][/\ \A k \in DOMAIN cache' : k = cleanWatchURL(k) /\ k.extra = FALSE
       /\ \A q \in IReq, k \in DOMAIN cache :
            ( /\ ipc[q] = "received" /\ ipc'[q] # "received"
              /\ k.id = ireq[q].url.id /\ now - cache[k].ts < TTL
              /\ ires'[q].status # 429 )
            => /\ ipc'[q] = "answered" /\ ires'[q].status = 200
               /\ ires'[q].body = cache[k].data]_vars

\* the entry was written at time 0, the last request was handled half a
\* TTL later, and two requests that wrote the url differently have the
\* answer of the entry
C28_Witness ==
    /\ DOMAIN cache = {Url("A", FALSE)}
    /\ cache[Url("A", FALSE)].ts = 0
    /\ rateLimiter["c1"] = <<TickMs>>
    /\ ireq[1].url.extra # ireq[2].url.extra
    /\ \A q \in {1, 2} :
          ires[q].status = 200 /\ ires[q].body = cache[Url("A", FALSE)].data

(* ------------------------- /info error claims ------------------------- *)
\* C29: an /info request answered after the extractor failed has the
\* status of the reason its error text gives: 410 for "Status code: 410",
\* 451 for "Sign in", 429 or 403 for "bot".
C29_StatusByReason ==
    \A q \in IReq :
        (ipc[q] = "answered" /\ ierr[q] # NoErr)
        => /\ Includes(ierr[q], "Status code: 410") => ires[q].status = 410
           /\ Includes(ierr[q], "Sign in") => ires[q].status = 451
           /\ Includes(ierr[q], "bot") => ires[q].status \in {429, 403}

\* C30: when getVideoInfoWithFallback gives up with an error whose text has
\* none of the phrases "bot", "Sign in" and "410", the same step answers
\* the request with status 500 and a JSON body that is an error text.
C30_UnrecognisedIs500 ==
    [][\A q \in IReq :
         ( /\ ipc[q] = "resolving" /\ ipc'[q] # "resolving"
           /\ ierr'[q] # NoErr
           /\ ~Includes(ierr'[q], "bot") /\ ~Includes(ierr'[q], "Sign in")
           /\ ~Includes(ierr'[q], "410") )
         => /\ ipc'[q] = "answered"
            /\ ires'[q].status = 500
            /\ ires'[q].body.error # ""
            /\ ires'[q].body.title = "" /\ ires'[q].body.formats = <<>>]_vars

\* a request whose last strategy failed with "socket hang up" has its 500
C30_Witness ==
    \E q \in IReq :
        /\ ipc[q] = "answered"
        /\ ierr[q] = {"socket hang up"}
        /\ ires[q] = Json(500, Failure("Failed to fetch video info"))

(* -------------------------- validation claims ------------------------- *)
\* C31: a request the rate limiter admits whose url is missing or invalid
\* (for /download also: whose itag is missing) is answered 400 by the step
\* that handles it, and a step that answers 400 starts no extractor
\* strategy, leaves the cache as it is and creates no temp file, fetch or
\* subprocess.
C31_BadRequestHasNoEffect ==
    [][/\ \A r \in Req :
            /\ ( /\ pc[r] = "received" /\ pc'[r] # "received"
                 /\ res'[r].status # 429
                 /\ (req[r].url \in {NoUrl, BadUrl} \/ req[r].itag = NoItag) )
               => res'[r].status = 400
            /\ (res[r].status # 400 /\ res'[r].status = 400)
               => /\ pc[r] = "received" /\ pc'[r] = "error"
                  /\ res'[r].st = "ended" /\ ~res'[r].bytes
                  /\ UNCHANGED <<attempt, videoF, audioF, vTmp, aTmp, fetch,
                                 ff, disk, cache>>
       /\ \A q \in IReq :
            /\ ( /\ ipc[q] = "received" /\ ipc'[q] # "received"
                 /\ ires'[q].status # 429
                 /\ ireq[q].url \in {NoUrl, BadUrl} )
               => ires'[q].status = 400
            /\ (ires[q].status # 400 /\ ires'[q].status = 400)
               => /\ ipc[q] = "received" /\ ipc'[q] = "answered"
                  /\ ires'[q].body.title = "" /\ ires'[q].body.formats = <<>>
                  /\ UNCHANGED <<iattempt, ierr, cache, dlVars>>]_vars

\* a /download without itag and an /info without url have their 400
C31_Witness ==
    /\ pc[1] = "error" /\ res[1].status = 400
    /\ req[1].url = Url("A", TRUE) /\ req[1].itag = NoItag
    /\ ipc[1] = "answered" /\ ires[1].status = 400 /\ ireq[1].url = NoUrl

(* --------------------------- response claims -------------------------- *)
\* C32: a /download whose fetch or remux failed before any media byte was
\* written to the response is answered with status 500.
C32_FailureBeforeBytesIs500 ==
    \A r \in Req :
        ( /\ pc[r] = "error" /\ res[r].st = "ended" /\ ~res[r].bytes
          /\ \/ ff[r] = "failed"
             \/ \E t \in Tracks : fetch[r][t] = "rejected" )
        => res[r].status = 500

\* C33: a /download response that media bytes were written to has the
\* Content-Disposition header and the Content-Type header.
C33_MediaHasBothHeaders ==
    \A r \in Req : res[r].bytes => res[r].cd /\ res[r].ct

(* ------------------------- concurrency claims ------------------------- *)
\* what the handler of request r holds in its locals and its response
Locals(r) ==
    <<pc[r], req[r], attempt[r], videoF[r], audioF[r], vTmp[r], aTmp[r],
      fetch[r], ff[r], res[r]>>

\* C34: two /download requests never have a temp file in common and the
\* two files of one request differ; a file is deleted only by the 'end'
\* listener of the request that created it; a step of one request changes
\* the locals and the response of no other request.
C34_TempFilesArePrivate ==
    [][/\ \A r \in Req, o \in Req :
            r # o => FilesOf(r)' \cap FilesOf(o)' = {}
       /\ \A r \in Req :
            (vTmp'[r] # NoFile /\ aTmp'[r] # NoFile) => vTmp'[r] # aTmp'[r]
       /\ \A f \in disk \ disk' :
            \E r \in Req :
                pc[r] = "muxing" /\ ff'[r] = "ended" /\ f \in FilesOf(r)
       /\ \A r \in Req, o \in Req :
            (r # o /\ Locals(r)' # Locals(r)) => Locals(o)' = Locals(o)]_vars

\* two merges in flight at once, four temp files on disk
C34_Witness ==
    /\ \A r \in {1, 2} : pc[r] \in {"fetching", "muxing"}
    /\ Cardinality(FilesOf(1) \cup FilesOf(2)) = 4
    /\ FilesOf(1) \cup FilesOf(2) \subseteq disk

(* -------------------------- resolution claims ------------------------- *)
\* C35: getVideoInfoWithFallback runs its strategies in the order 0
\* (basic info), 1 (full info), 2 (full info, other user agent): the index
\* of the running strategy never exceeds 2, a step moves it on by one or
\* not at all while the call lasts, a request that has its answer never
\* resolves again, and when the third strategy fails the answer is the one
\* of the error it threw.
C35_ThreeStrategiesInOrder ==
    [][/\ \A q \in IReq :
            /\ iattempt'[q] \in 0..2
            /\ (ipc[q] = "resolving" /\ ipc'[q] = "resolving")
               => iattempt'[q] \in {iattempt[q], iattempt[q] + 1}
            /\ (ipc[q] = "resolving" /\ iattempt'[q] = iattempt[q] + 1)
               => ipc'[q] = "resolving" /\ ierr'[q] # NoErr
            /\ ipc[q] = "answered" => ipc'[q] = "answered"
            /\ (ipc[q] = "resolving" /\ ipc'[q] = "answered" /\ ierr'[q] # NoErr)
               => /\ iattempt[q] = 2
                  /\ ires'[q] = Json(StatusOfError(ierr'[q]),
                                     Failure(TextOfError(ierr'[q])))
       /\ \A r \in Req :
            /\ attempt'[r] \in 0..2
            /\ (pc[r] = "resolving" /\ pc'[r] = "resolving")
               => attempt'[r] \in {attempt[r], attempt[r] + 1}
            /\ pc[r] # "resolving" => attempt'[r] = 0]_vars

\* the /info request has the answer of the error of its third strategy
\* while the /download request is at its third strategy
C35_Witness ==
    /\ ipc[1] = "answered" /\ ierr[1] = {"bot"} /\ ires[1].status = 403
    /\ pc[1] = "resolving" /\ attempt[1] = 2

(* -------------------------- rate-limit claims ------------------------- *)
\* the number of hits of the table of client c that fall into the 60000 ms
\* before (and including) the time t
HitsInWindow(c, t) ==
    Cardinality({j \in 1..Len(rateLimiter[c]) :
                    rateLimiter[c][j] <= t /\ t - rateLimiter[c][j] < 60000})

\* C36: the table of a client never holds more than 10 hits of one 60000 ms
\* window; a request (/info or /download) handled while there are 10 hits
\* in the window is answered 429 by that step, which records no hit and
\* changes nothing else; one handled below the limit is recorded as a hit
\* at the current time and is not answered 429.
C36_TenPerWindow ==
    [][/\ \A c \in Clients : \A i \in 1..Len(rateLimiter[c]) :
            HitsInWindow(c, rateLimiter[c][i]) <= 10
       /\ \A r \in Req :
            (pc[r] = "received" /\ pc'[r] # "received")
            => IF HitsInWindow(req[r].ip, now) >= 10
               THEN /\ res'[r].status = 429 /\ pc'[r] = "error"
                    /\ UNCHANGED <<rateLimiter, attempt, videoF, audioF, vTmp,
                                   aTmp, fetch, ff, disk, infoVars>>
               ELSE /\ res'[r].status # 429
                    /\ Len(rateLimiter'[req[r].ip])
                         = HitsInWindow(req[r].ip, now) + 1
                    /\ rateLimiter'[req[r].ip][Len(rateLimiter'[req[r].ip])] = now
       /\ \A q \in IReq :
            (ipc[q] = "received" /\ ipc'[q] # "received")
            => IF HitsInWindow(ireq[q].ip, now) >= 10
               THEN /\ ires'[q].status = 429 /\ ipc'[q] = "answered"
                    /\ UNCHANGED <<rateLimiter, iattempt, ierr, cache, dlVars>>
               ELSE /\ ires'[q].status # 429
                    /\ Len(rateLimiter'[ireq[q].ip])
                         = HitsInWindow(ireq[q].ip, now) + 1
                    /\ rateLimiter'[ireq[q].ip][Len(rateLimiter'[ireq[q].ip])] = now]_vars

\* nine earlier hits, the /info request admitted as the tenth half a window
\* later, and the /download request refused at that time as the eleventh
C36_Witness ==
    /\ now = 30000
    /\ rateLimiter["c1"] = [i \in 1..10 |-> IF i = 10 THEN 30000 ELSE 0]
    /\ ipc[1] \notin {"idle", "received"} /\ ires[1].status # 429
    /\ pc[1] = "error" /\ res[1].status = 429

(* ----------------------------- frame claims --------------------------- *)
\* C37: every entry of the cache is a payload with a title, a non-empty
\* formats list and no error text; a step that answers an /info request
\* with 400, 403, 404, 429 or 500 leaves the cache as it is; so does every
\* step of a /download request, and an admitted, valid /download goes to
\* the extractor whatever the cache holds.
C37_CacheHoldsOnlyMenus ==
    [][/\ \A k \in DOMAIN cache' :
            /\ cache'[k].data.title # ""
            /\ cache'[k].data.formats # <<>>
            /\ cache'[k].data.error = ""
       /\ \A q \in IReq :
            (ires'[q] # ires[q] /\ ires'[q].status \in {400, 403, 404, 429, 500})
            => cache' = cache
       /\ \A r \in Req :
            /\ Locals(r)' # Locals(r) => cache' = cache
            /\ (pc[r] = "received" /\ pc'[r] \notin {"received", "error"})
               => pc'[r] = "resolving"]_vars

\* the menu of the video is in the cache since time 0 and a /download of
\* the same video, handled half a window later, is at the extractor
C37_Witness ==
    /\ ires[1].status = 200
    /\ Url("A", FALSE) \in DOMAIN cache
    /\ cache[Url("A", FALSE)] = [data |-> ires[1].body, ts |-> 0]
    /\ pc[1] = "resolving" /\ attempt[1] = 0
    /\ rateLimiter["c1"][Len(rateLimiter["c1"])] = 30000

(* ---------------------------- popup claims ---------------------------- *)
\* C38: fetchWithRetry(url, tries, timeout) starts at most `tries` fetches;
\* the k-th delay it waits is 2000, 4000, 8000 and from the fourth on
\* 10000 ms; it returns the first response it gets, of whatever status,
\* after as many delays as fetches failed before; it throws only after
\* `tries` failed fetches and as many delays, and then lastErr is the
\* error of a fetch (when tries > 0); and a call that has started always
\* comes to its return or its throw.
C38_RetryIsBoundedAndBacksOff ==
    /\ [](/\ fetched <= tries
          /\ \A k \in 1..Len(waits) :
                waits[k] = (CASE k = 1 -> 2000 [] k = 2 -> 4000
                              [] k = 3 -> 8000 [] OTHER -> 10000)
          /\ fpc = "returned"
             => /\ response \in Responses(yt)
                /\ fetched = Len(waits) + 1
          /\ fpc = "threw"
             => /\ fetched = tries /\ Len(waits) = tries
                /\ response = NoResponse
                /\ tries > 0 => lastErr \in FetchErrs)
    /\ (fpc \in {"fetch", "backoff"}) ~> (fpc \in {"returned", "threw"})

\* a call with four tries has failed four times and thrown, the last delay
\* being the capped one
C38_Witness ==
    /\ fpc = "threw" /\ tries = 4 /\ fetched = 4
    /\ waits = <<2000, 4000, 8000, 10000>>
    /\ lastErr = "AbortError"

\* C39: while fetchFormats is running or a chrome.downloads callback is
\* due, busy is true; at most one of the two is in flight, and never two
\* downloads; while busy is true no click starts fetchFormats or
\* startDownload; when fetchFormats is over and when the callback has run,
\* busy is false.
C39_BusyExcludesAndIsReleased ==
    [][/\ (fpc' # "idle" \/ pending' > 0) => busy'
       /\ ~(fpc' # "idle" /\ pending' > 0) /\ pending' <= 1
       /\ busy => /\ fpc = "idle" => fpc' = "idle"
                  /\ fetched' >= fetched \/ fpc' = "idle"
                  /\ pending' <= pending
       /\ (fpc # "idle" /\ fpc' = "idle") => ~busy'
       /\ pending' < pending => ~busy']_vars

\* a fetchFormats run whose first fetch failed and a download whose
\* callback has run are both over, and busy is false
C39_Witness ==
    /\ fpc = "idle" /\ lastErr \in FetchErrs
    /\ sent # NoSent /\ pending = 0
    /\ ~busy

\* C40: the itag of a request the popup hands to chrome.downloads is one of
\* the menu /info gives for the url of that request.
C40_ItagOfTheSameUrl ==
    (sent # NoSent /\ isValidYtUrl(sent.url))
    => \E i \in 1..Len(BuildMenu(Library[sent.url])) :
          BuildMenu(Library[sent.url])[i].itag = sent.itag

=============================================================================
